---- MODULE Spec2Model ----
(***************************************************************************)
(* Quiz backend: route handlers over two services.                         *)
(*                                                                         *)
(*   FirestoreService  reads the "questions" collection of a document      *)
(*                     store (point lookup, random sample, subjects,       *)
(*                     count).                                             *)
(*   GeminiService     submits one prompt to a generative-text API and     *)
(*                     extracts the text of the answer.                    *)
(*                                                                         *)
(* Spec      : the endpoints, one request in flight at a time (handlers    *)
(*             share no mutable state).  A question endpoint resolves its  *)
(*             FirestoreService dependency before its handler is called.   *)
(* SpecDeps  : application start-up and the dependency providers of        *)
(*             app/api/deps.py, run by concurrent worker threads.          *)
(***************************************************************************)
EXTENDS Integers, Sequences, FiniteSets, TLC

VARIABLES
    store,      \* the "questions" collection: document id -> document data
    req,        \* the request in flight in a handler (Spec)
    app,        \* application life cycle (SpecDeps)
    cache,      \* lru_cache of each dependency provider (SpecDeps)
    built,      \* per service, how many instances were constructed (SpecDeps)
    thr         \* worker threads resolving a request's dependency (SpecDeps)

vars == <<store, req, app, cache, built, thr>>

(***************************************************************************)
(* Bounds of the model.                                                    *)
(***************************************************************************)
MaxDocs == 2          \* document ids are 1..MaxDocs
MaxTextLen == 2       \* longest request / generated text, in characters
MaxQuestions == 2     \* longest question list of a feedback request
MaxThreads == 2       \* concurrent requests resolving dependencies

(***************************************************************************)
(* Program constants.                                                      *)
(***************************************************************************)
max_questions_per_request == 20
MinQuestionTextLen == 1
MinOptions == 2

(***************************************************************************)
(* Python values.                                                          *)
(***************************************************************************)
\* Optional[T]: None is the empty sequence, a value v is <<v>>.
None == <<>>
Some(v) == <<v>>

\* A str as the sequence of its characters; " " is whitespace.
Chars == {" ", "x"}
Texts == UNION {[1..n -> Chars] : n \in 0..MaxTextLen}

RECURSIVE lstrip(_)
lstrip(s) == IF s # <<>> /\ Head(s) = " " THEN lstrip(Tail(s)) ELSE s

RECURSIVE rstrip(_)
rstrip(s) ==
    IF s # <<>> /\ s[Len(s)] = " " THEN rstrip(SubSeq(s, 1, Len(s) - 1)) ELSE s

\* str.strip()
strip(s) == rstrip(lstrip(s))

\* A set of integers as the ascending list of its elements.
RECURSIVE SortedSeq(_)
SortedSeq(S) ==
    IF S = {} THEN <<>>
    ELSE LET m == CHOOSE x \in S : \A y \in S : x <= y
         IN  <<m>> \o SortedSeq(S \ {m})

Min(a, b) == IF a <= b THEN a ELSE b

(***************************************************************************)
(* Results of a call: a returned value or a raised exception.              *)
(***************************************************************************)
Return(v) == [tag |-> "return", value |-> v]
Raise(e) == [tag |-> "raise", exc |-> e]

Exc(type, message) == [type |-> type, status_code |-> 0, message |-> message]

StatusStr(n) ==
    CASE n = 400 -> "400" [] n = 404 -> "404" [] n = 422 -> "422"
      [] n = 500 -> "500" [] n = 502 -> "502" [] OTHER -> "?"

\* str(e): starlette's HTTPException prints "<status_code>: <detail>".
ExcStr(e) ==
    IF e.type = "HTTPException"
    THEN StatusStr(e.status_code) \o ": {'message': '" \o e.message \o "'}"
    ELSE e.message

\* create_http_exception(status_code, message)
create_http_exception(status_code, message) ==
    [type |-> "HTTPException", status_code |-> status_code, message |-> message]

(***************************************************************************)
(* The document store.                                                     *)
(***************************************************************************)
DocIds == 1..MaxDocs
Subjects == {"", "a", "b"}

\* A document's data: a dict with or without a "subject" field.
DocData == {[question |-> "text"]}
           \cup {[question |-> "text", subject |-> s] : s \in Subjects}

Stores == UNION {[S -> DocData] : S \in SUBSET DocIds}

\* Outcome of a call to the document store's client.
StoreOutcomes == {"ok", "GoogleCloudError", "Exception"}

\* The subject query parameter: absent, or a string (possibly empty).
SubjectParams == {None} \cup {Some(s) : s \in Subjects}

\* Python truth of an Optional[str].
Truthy(subject) == subject # None /\ subject[1] # ""

\* Mutant of questions_query: the where() clause is dropped.
questions_query_unfiltered(st, subject) == DOMAIN st

\* collection(...).where("subject", "==", subject) / the unfiltered collection
questions_query(st, subject) ==
    IF Truthy(subject)
    THEN {i \in DOMAIN st :
              "subject" \in DOMAIN st[i] /\ st[i].subject = subject[1]}
    ELSE DOMAIN st

\* query.stream(): the matching document snapshots, in id order
stream(st, ids) ==
    LET order == SortedSeq(ids)
    IN  [k \in 1..Len(order) |-> [id |-> order[k], data |-> st[order[k]]]]

\* except GoogleCloudError / except Exception of every FirestoreService method
firestore_except(e) ==
    IF e.type = "GoogleCloudError"
    THEN Raise(create_http_exception(500, "Error de base de datos: " \o ExcStr(e)))
    ELSE Raise(create_http_exception(500, "Error interno: " \o ExcStr(e)))

store_failure(outcome) ==
    IF outcome = "GoogleCloudError"
    THEN Exc("GoogleCloudError", "unavailable")
    ELSE Exc("Exception", "failure")

\* FirestoreService.get_question_by_id
svc_get_question_by_id(st, question_id, outcome) ==
    IF outcome # "ok" THEN firestore_except(store_failure(outcome))
    ELSE IF question_id \notin DOMAIN st
         THEN \* raised inside the try block: caught by "except Exception"
              firestore_except(create_http_exception(404, "Pregunta no encontrada"))
         ELSE Return(st[question_id])

\* doc.to_dict() with the document id added under "id"
with_id(doc) ==
    IF "subject" \in DOMAIN doc.data
    THEN [question |-> doc.data.question, subject |-> doc.data.subject, id |-> doc.id]
    ELSE [question |-> doc.data.question, id |-> doc.id]

\* random.sample(population, k): every list of k elements at distinct positions
random_sample(population, k) ==
    {[j \in 1..k |-> population[p[j]]] :
        p \in {f \in [1..k -> 1..Len(population)] :
                   \A a, b \in 1..k : a # b => f[a] # f[b]}}

\* actual_count = min(count, len(all_questions))
actual_count(count, n) == Min(count, n)

\* FirestoreService.get_random_questions: the set of possible results
svc_get_random_questions(st, count, subject, outcome) ==
    IF outcome # "ok" THEN {firestore_except(store_failure(outcome))}
    ELSE LET docs == stream(st, questions_query(st, subject))
             all_questions == [k \in 1..Len(docs) |-> with_id(docs[k])]
         IN  IF all_questions = <<>> THEN {Return(<<>>)}
             ELSE {Return(s) :
                     s \in random_sample(all_questions,
                                         actual_count(count, Len(all_questions)))}

\* Python's order on the subject strings of the model.
StrRank(s) == CASE s = "" -> 0 [] s = "a" -> 1 [] s = "b" -> 2 [] OTHER -> 3

\* sorted(list(subjects))
RECURSIVE sorted(_)
sorted(S) ==
    IF S = {} THEN <<>>
    ELSE LET m == CHOOSE x \in S : \A y \in S : StrRank(x) <= StrRank(y)
         IN  <<m>> \o sorted(S \ {m})

\* FirestoreService.get_available_subjects
svc_get_available_subjects(st, outcome) ==
    IF outcome # "ok" THEN firestore_except(store_failure(outcome))
    ELSE LET docs == stream(st, DOMAIN st)
             subjects == {docs[k].data.subject :
                            k \in {j \in 1..Len(docs) :
                                     /\ "subject" \in DOMAIN docs[j].data
                                     /\ docs[j].data.subject # ""}}
         IN  Return(sorted(subjects))

\* Outcome of the aggregation query of get_questions_count.
CountOutcomes == StoreOutcomes \cup {"AttributeError"}

\* FirestoreService.get_questions_count: aggregation, or the manual count
\* when the client has no count() (AttributeError).
svc_get_questions_count(st, subject, outcome, fallback) ==
    LET query == questions_query(st, subject)
    IN  IF outcome = "ok" THEN Return(Cardinality(query))
        ELSE IF outcome = "AttributeError"
             THEN IF fallback = "ok" THEN Return(Len(stream(st, query)))
                  ELSE firestore_except(store_failure(fallback))
             ELSE firestore_except(store_failure(outcome))

(***************************************************************************)
(* HTTP responses.                                                         *)
(***************************************************************************)
\* What the framework sends for a handler's result: the returned body with
\* status 200, an HTTPException's status and detail, and 500 for any other
\* exception that leaves the handler.
http_response(result) ==
    IF result.tag = "return"
    THEN [status |-> 200, message |-> "", body |-> Some(result.value)]
    ELSE IF result.exc.type = "HTTPException"
         THEN [status |-> result.exc.status_code,
               message |-> result.exc.message, body |-> None]
         ELSE [status |-> 500, message |-> "Internal Server Error", body |-> None]

\* The framework's answer to a request that fails the declared validation.
validation_error == [status |-> 422, message |-> "validation error", body |-> None]

(***************************************************************************)
(* Question route handlers (app/api/v1/endpoints/questions.py).            *)
(***************************************************************************)
\* Query(5, ge=1, le=settings.max_questions_per_request)
valid_count(count) == count >= 1 /\ count <= max_questions_per_request

\* GET /questions/{question_id}
ep_get_question_by_id(st, question_id, outcome) ==
    http_response(svc_get_question_by_id(st, question_id, outcome))

\* GET /questions/?count=&subject= : the set of possible responses
ep_get_random_questions(st, count, subject, outcome) ==
    IF ~valid_count(count) THEN {validation_error}
    ELSE {http_response(r) : r \in svc_get_random_questions(st, count, subject, outcome)}

\* GET /questions/subjects/available
ep_get_available_subjects(st, outcome) ==
    LET r == svc_get_available_subjects(st, outcome)
    IN  IF r.tag = "return" THEN http_response(Return([subjects |-> r.value]))
        ELSE http_response(r)

\* GET /questions/count/total?subject=
ep_get_questions_count(st, subject, outcome, fallback) ==
    LET r == svc_get_questions_count(st, subject, outcome, fallback)
    IN  IF r.tag = "return"
        THEN http_response(Return([total_questions |-> r.value,
                                   subject |-> subject,
                                   filtered |-> (subject # None)]))
        ELSE http_response(r)

(***************************************************************************)
(* Request models (app/models/schemas.py).                                 *)
(***************************************************************************)
\* ExplanationRequest: question_text with min_length=1
valid_explanation_request(question_text) == Len(question_text) >= MinQuestionTextLen

\* Question: the k-th question of a list has id k and the text "Q<k>"; its
\* correct_answer is only required to be >= 0.
CorrectIdx == 0..MinOptions
AnswerIdx == 0..(MinOptions - 1)

Question(k, c) ==
    [id |-> k, question |-> "Q" \o ToString(k),
     options |-> [o \in 1..MinOptions |-> "option"], correct_answer |-> c]

QuestionLists ==
    UNION {{[k \in 1..n |-> Question(k, cs[k])] : cs \in [1..n -> CorrectIdx]} :
              n \in 0..MaxQuestions}

\* UserAttempt: score >= 0, total_questions > 0, answers any list of int
Scores == 0..1

UserAttempts ==
    [score : Scores,
     total_questions : 1..(MaxQuestions + 1),
     answers : UNION {[1..n -> AnswerIdx] : n \in 0..(MaxQuestions + 1)}]

\* FeedbackRequest: questions with min_items=1, each Question and the
\* UserAttempt valid by their own fields
valid_feedback_request(questions, user_attempt) ==
    /\ Len(questions) >= 1
    /\ \A k \in 1..Len(questions) :
          /\ Len(questions[k].options) >= MinOptions
          /\ questions[k].correct_answer >= 0
    /\ user_attempt.score >= 0
    /\ user_attempt.total_questions > 0

(***************************************************************************)
(* GeminiService (app/services/gemini_service.py).                         *)
(***************************************************************************)
\* Prompts: which template, and what was filled in.
explanation_prompt(question_text) ==
    [kind |-> "explanation", text |-> question_text, lines |-> <<>>]

congratulations_prompt == [kind |-> "congratulations", text |-> <<>>, lines |-> <<>>]

\* _create_feedback_prompt: "<i>. <question>" for enumerate(incorrect, 1)
feedback_prompt(incorrect_questions) ==
    [kind |-> "feedback", text |-> <<>>,
     lines |-> [i \in 1..Len(incorrect_questions) |->
                   [n |-> i, question |-> incorrect_questions[i].question]]]

test_prompt == [kind |-> "test", text |-> <<>>, lines |-> <<>>]

\* Mutant of validate_feedback_input: the answer-list length is not checked.
validate_feedback_input_no_length_check(questions, user_attempt) ==
    IF questions = <<>>
    THEN Raise(Exc("GeminiException", "La lista de preguntas no puede estar vacia"))
    ELSE IF Len(questions) # user_attempt.total_questions
    THEN Raise(Exc("GeminiException",
                   "El numero de preguntas no coincide con total_questions"))
    ELSE Return(None)

\* _validate_feedback_input
validate_feedback_input(questions, user_attempt) ==
    IF questions = <<>>
    THEN Raise(Exc("GeminiException", "La lista de preguntas no puede estar vacia"))
    ELSE IF Len(questions) # user_attempt.total_questions
    THEN Raise(Exc("GeminiException",
                   "El numero de preguntas no coincide con total_questions"))
    ELSE IF Len(user_attempt.answers) # Len(questions)
    THEN Raise(Exc("GeminiException",
                   "El numero de respuestas no coincide con el numero de preguntas"))
    ELSE Return(None)

\* Mutant of is_incorrect: every answer is compared with the first question.
is_incorrect_first_question(questions, user_attempt, i) ==
    user_attempt.answers[i] # questions[1].correct_answer

\* The test of _get_incorrect_questions on position i.
is_incorrect(questions, user_attempt, i) ==
    user_attempt.answers[i] # questions[i].correct_answer

\* _get_incorrect_questions (called after validation: the lists have one length)
RECURSIVE incorrect_from(_, _, _)
incorrect_from(questions, user_attempt, i) ==
    IF i > Len(questions) THEN <<>>
    ELSE (IF is_incorrect(questions, user_attempt, i)
          THEN <<[question |-> questions[i].question,
                  options |-> questions[i].options]>>
          ELSE <<>>)
         \o incorrect_from(questions, user_attempt, i + 1)

get_incorrect_questions(questions, user_attempt) ==
    incorrect_from(questions, user_attempt, 1)

\* The provider's answer to a submitted prompt: an exception, or a response
\* object (None, or candidates -> content -> parts -> text, each optional).
Parts == {[text |-> None]} \cup {[text |-> Some(t)] : t \in Texts}
PartLists ==
    {<<>>} \cup {<<p>> : p \in Parts}
    \cup {<<[text |-> Some(<<"x">>)], [text |-> Some(<<" ">>)]>>,
          <<[text |-> Some(<<" ">>)], [text |-> Some(<<"x">>)]>>}
Contents == {None} \cup {Some([parts |-> ps]) : ps \in PartLists}
Candidates == [content : Contents]
CandidateLists ==
    {<<>>} \cup {<<c>> : c \in Candidates}
    \cup {<<[content |-> Some([parts |-> <<[text |-> Some(<<"x">>)]>>])],
            [content |-> None]>>,
          <<[content |-> None],
            [content |-> Some([parts |-> <<[text |-> Some(<<"x">>)]>>])]>>}
Responses == {None} \cup {Some([candidates |-> cs]) : cs \in CandidateLists}

ProviderErrors == {"ClientError", "ServerError", "Exception"}
ProviderOutcomes ==
    {[error |-> e, response |-> None] : e \in ProviderErrors}
    \cup {[error |-> "", response |-> r] : r \in Responses}

\* Mutant of extract_text_from_response: the text of the last part is taken.
extract_text_from_last_part(response) ==
    IF response = None
    THEN Raise(Exc("GeminiException", "No se recibio respuesta de Gemini"))
    ELSE IF response[1].candidates = <<>>
    THEN Raise(Exc("GeminiException", "No se encontraron candidatos en la respuesta"))
    ELSE LET candidate == response[1].candidates[1]
         IN  IF candidate.content = None
             THEN Raise(Exc("GeminiException", "El candidato no tiene contenido"))
             ELSE IF candidate.content[1].parts = <<>>
             THEN Raise(Exc("GeminiException", "El contenido no tiene partes"))
             ELSE LET parts == candidate.content[1].parts
                      text == parts[Len(parts)].text
                  IN  IF text = None \/ text[1] = <<>> \/ strip(text[1]) = <<>>
                      THEN Raise(Exc("GeminiException", "El texto generado esta vacio"))
                      ELSE Return(text[1])

\* _extract_text_from_response
extract_text_from_response(response) ==
    IF response = None
    THEN Raise(Exc("GeminiException", "No se recibio respuesta de Gemini"))
    ELSE IF response[1].candidates = <<>>
    THEN Raise(Exc("GeminiException", "No se encontraron candidatos en la respuesta"))
    ELSE LET candidate == response[1].candidates[1]
         IN  IF candidate.content = None
             THEN Raise(Exc("GeminiException", "El candidato no tiene contenido"))
             ELSE IF candidate.content[1].parts = <<>>
             THEN Raise(Exc("GeminiException", "El contenido no tiene partes"))
             ELSE LET text == candidate.content[1].parts[1].text
                  IN  IF text = None \/ text[1] = <<>> \/ strip(text[1]) = <<>>
                      THEN Raise(Exc("GeminiException", "El texto generado esta vacio"))
                      ELSE Return(text[1])

\* Mutant of gemini_except: no clause for errors.ServerError.
gemini_except_no_server_clause(e) ==
    IF e.type = "ClientError"
    THEN Raise(create_http_exception(400, "Error del cliente: " \o ExcStr(e)))
    ELSE Raise(create_http_exception(500, "Error interno: " \o ExcStr(e)))

\* except errors.ClientError / errors.ServerError / Exception of
\* generate_explanation and generate_feedback
gemini_except(e) ==
    IF e.type = "ClientError"
    THEN Raise(create_http_exception(400, "Error del cliente: " \o ExcStr(e)))
    ELSE IF e.type = "ServerError"
    THEN Raise(create_http_exception(502, "Error del servidor Gemini: " \o ExcStr(e)))
    ELSE Raise(create_http_exception(500, "Error interno: " \o ExcStr(e)))

\* A step of a service call up to its await: it raises, or it submits a prompt.
Submit(prompt) == [tag |-> "submit", prompt |-> prompt]

\* generate_explanation up to the await of generate_content
generate_explanation_begin(question_text) ==
    IF strip(question_text) = <<>>
    THEN gemini_except(Exc("GeminiException",
                           "El texto de la pregunta no puede estar vacio"))
    ELSE Submit(explanation_prompt(question_text))

\* Mutant of generate_feedback_begin: a full score is taken for a perfect
\* attempt.
generate_feedback_begin_trusting_score(questions, user_attempt) ==
    LET v == validate_feedback_input(questions, user_attempt)
    IN  IF v.tag = "raise" THEN gemini_except(v.exc)
        ELSE LET incorrect_questions == get_incorrect_questions(questions, user_attempt)
             IN  IF user_attempt.score = user_attempt.total_questions
                    \/ incorrect_questions = <<>>
                 THEN Submit(congratulations_prompt)
                 ELSE Submit(feedback_prompt(incorrect_questions))

\* generate_feedback up to the await of generate_content
generate_feedback_begin(questions, user_attempt) ==
    LET v == validate_feedback_input(questions, user_attempt)
    IN  IF v.tag = "raise" THEN gemini_except(v.exc)
        ELSE LET incorrect_questions == get_incorrect_questions(questions, user_attempt)
             IN  IF incorrect_questions = <<>>
                 THEN Submit(congratulations_prompt)
                 ELSE Submit(feedback_prompt(incorrect_questions))

\* generate_explanation / generate_feedback from the provider's answer on
generate_end(outcome) ==
    IF outcome.error # ""
    THEN gemini_except(Exc(outcome.error, "provider failure"))
    ELSE LET r == extract_text_from_response(outcome.response)
         IN  IF r.tag = "raise" THEN gemini_except(r.exc) ELSE r

\* The Python str a text stands for, as a string.
RECURSIVE text_str(_)
text_str(t) == IF t = <<>> THEN "" ELSE Head(t) \o text_str(Tail(t))

\* test_connection from the provider's answer on: every exception is caught
\* and its str(e) returned as the message of an "error" result; the message
\* of a "success" result is parts[0].text, a str or None.
test_connection_end(outcome) ==
    IF outcome.error # ""
    THEN [status |-> "error",
          message |-> Some(ExcStr(Exc(outcome.error, "provider failure")))]
    ELSE IF outcome.response # None /\ outcome.response[1].candidates # <<>>
    THEN LET candidate == outcome.response[1].candidates[1]
         IN  IF candidate.content = None
             THEN [status |-> "error",
                   message |-> Some(ExcStr(Exc("AttributeError",
                       "'NoneType' object has no attribute 'parts'")))]
             ELSE IF candidate.content[1].parts = <<>>
             THEN [status |-> "error",
                   message |-> Some(ExcStr(Exc("IndexError",
                                               "list index out of range")))]
             ELSE LET text == candidate.content[1].parts[1].text
                  IN  [status |-> "success",
                       message |-> IF text = None THEN None
                                   ELSE Some(text_str(text[1]))]
    ELSE [status |-> "error", message |-> Some("No se recibio respuesta valida")]

(***************************************************************************)
(* Explanation and feedback route handlers.                                *)
(***************************************************************************)
\* POST /feedback/generate, before the service call: the handler's own count
\* of incorrect answers indexes answers[i] for every question i.
feedback_handler_count(questions, user_attempt) ==
    IF Len(user_attempt.answers) < Len(questions)
    THEN Raise(Exc("IndexError", "list index out of range"))
    ELSE Return(Cardinality({i \in 1..Len(questions) :
                                user_attempt.answers[i] # questions[i].correct_answer}))

\* POST /feedback/generate up to the await of the provider
ep_feedback_begin(questions, user_attempt) ==
    LET c == feedback_handler_count(questions, user_attempt)
    IN  IF c.tag = "raise" THEN c
        ELSE generate_feedback_begin(questions, user_attempt)

\* GET /explanations/test: ApiResponse(status, message, data); message must
\* be a str for the response model to be built.
ep_test_connection_end(outcome) ==
    LET result == test_connection_end(outcome)
    IN  IF result.message = None
        THEN http_response(Raise(Exc("ValidationError", "message: str expected")))
        ELSE http_response(Return([status |-> result.status,
                                   message |-> result.message[1],
                                   data |-> IF result.status = "success"
                                            THEN Some(result) ELSE None]))

(***************************************************************************)
(* Service construction (the services' __init__) and the dependency of the *)
(* question endpoints (app/api/deps.py).                                   *)
(***************************************************************************)
\* The fields class Settings defines.
SettingsFields ==
    {"app_name", "version", "description", "environment", "debug",
     "cors_origins", "gemini_api_key", "gemini_model",
     "google_application_credentials", "max_questions_per_request",
     "max_explanation_tokens", "max_feedback_tokens", "log_level"}

\* FirestoreService.__init__: reads settings.google_cloud_project, then
\* creates the client; any exception becomes FirestoreException.
FirestoreService_init(client_ok) ==
    IF "google_cloud_project" \notin SettingsFields
    THEN Raise(Exc("FirestoreException", "Error inicializando Firestore: AttributeError"))
    ELSE IF ~client_ok
    THEN Raise(Exc("FirestoreException", "Error inicializando Firestore: client"))
    ELSE Return(None)

\* GeminiService.__init__: genai.Client(api_key=settings.gemini_api_key);
\* the client refuses an empty key.
GeminiService_init(gemini_api_key) ==
    IF gemini_api_key = ""
    THEN Raise(Exc("GeminiException", "Error inicializando cliente de Gemini"))
    ELSE Return(None)

\* firestore_service = Depends(get_firestore_service), resolved by the
\* framework before a question handler is called: the provider's body
\* constructs FirestoreService, and an exception of the constructor leaves
\* the provider.  overridden = TRUE is a handler that is given an instance
\* in the provider's place (an entry of app.dependency_overrides); the
\* application itself registers none.
Depends_get_firestore_service(overridden, client_ok) ==
    IF overridden THEN Return(None) ELSE FirestoreService_init(client_ok)

(***************************************************************************)
(* Spec: the route handlers.                                               *)
(***************************************************************************)
QuestionIds == 1..(MaxDocs + 1)
Counts == 0..(max_questions_per_request + 1)

IdleReq ==
    [pc |-> "idle", endpoint |-> "", args |-> <<>>, store_outcome |-> "",
     prompt |-> None, submits |-> 0, provider |-> None, resp |-> None,
     logged |-> None, firestore_service |-> ""]

\* A request answered by its handler without awaiting the provider.
Answered(endpoint, args, store_outcome, resp) ==
    [pc |-> "done", endpoint |-> endpoint, args |-> args,
     store_outcome |-> store_outcome, prompt |-> None, submits |-> 0,
     provider |-> None, resp |-> Some(resp), logged |-> None,
     firestore_service |-> ""]

\* A request whose handler has submitted a prompt and awaits the provider.
Awaiting(endpoint, args, prompt) ==
    [pc |-> "awaiting", endpoint |-> endpoint, args |-> args,
     store_outcome |-> "", prompt |-> Some(prompt), submits |-> 1,
     provider |-> None, resp |-> None, logged |-> None,
     firestore_service |-> ""]

\* The state a service call's first step leaves the request in.
AfterBegin(endpoint, args, begin) ==
    IF begin.tag = "submit" THEN Awaiting(endpoint, args, begin.prompt)
    ELSE Answered(endpoint, args, "", http_response(begin))

HandlerIdle == req.pc = "idle"
unchanged_deps == UNCHANGED <<app, cache, built, thr>>

\* A request to a question endpoint whose dependency raised: the handler is
\* not called and no store call is made; the framework answers 500.
DependencyFailed(endpoint, args, dep) ==
    [Answered(endpoint, args, "", http_response(dep))
        EXCEPT !.firestore_service = "raised"]

\* A request to a question endpoint whose handler ran with a service.
HandlerAnswered(endpoint, args, store_outcome, resp) ==
    [Answered(endpoint, args, store_outcome, resp)
        EXCEPT !.firestore_service = "instance"]

GetQuestionById ==
    /\ HandlerIdle
    /\ \E question_id \in QuestionIds, outcome \in StoreOutcomes,
          overridden \in BOOLEAN, client_ok \in BOOLEAN :
          LET args == [question_id |-> question_id]
              dep == Depends_get_firestore_service(overridden, client_ok)
          IN  req' = IF dep.tag = "raise"
                     THEN DependencyFailed("get_question_by_id", args, dep)
                     ELSE HandlerAnswered("get_question_by_id", args, outcome,
                              ep_get_question_by_id(store, question_id, outcome))
    /\ UNCHANGED store
    /\ unchanged_deps

\* Mutant of GetRandomQuestions: the id added to each returned dict is
\* written back to the stored document.
GetRandomQuestionsWritingBack ==
    /\ HandlerIdle
    /\ \E count \in Counts, subject \in SubjectParams, outcome \in StoreOutcomes,
          overridden \in BOOLEAN, client_ok \in BOOLEAN :
          LET args == [count |-> count, subject |-> subject]
              dep == Depends_get_firestore_service(overridden, client_ok)
          IN  IF dep.tag = "raise"
              THEN /\ req' = DependencyFailed("get_random_questions", args, dep)
                   /\ UNCHANGED store
              ELSE \E resp \in ep_get_random_questions(store, count, subject, outcome) :
                      /\ req' = HandlerAnswered("get_random_questions", args,
                                    IF valid_count(count) THEN outcome ELSE "", resp)
                      /\ store' = IF resp.status = 200
                                  THEN [i \in DOMAIN store |->
                                          IF \E a \in 1..Len(resp.body[1]) :
                                                resp.body[1][a].id = i
                                          THEN [question |-> "stored with id"]
                                          ELSE store[i]]
                                  ELSE store
    /\ unchanged_deps

GetRandomQuestions ==
    /\ HandlerIdle
    /\ \E count \in Counts, subject \in SubjectParams, outcome \in StoreOutcomes,
          overridden \in BOOLEAN, client_ok \in BOOLEAN :
          LET args == [count |-> count, subject |-> subject]
              dep == Depends_get_firestore_service(overridden, client_ok)
          IN  IF dep.tag = "raise"
              THEN req' = DependencyFailed("get_random_questions", args, dep)
              ELSE \E resp \in ep_get_random_questions(store, count, subject, outcome) :
                      req' = HandlerAnswered("get_random_questions", args,
                                 IF valid_count(count) THEN outcome ELSE "", resp)
    /\ UNCHANGED store
    /\ unchanged_deps

GetAvailableSubjects ==
    /\ HandlerIdle
    /\ \E outcome \in StoreOutcomes, overridden \in BOOLEAN, client_ok \in BOOLEAN :
          LET dep == Depends_get_firestore_service(overridden, client_ok)
          IN  req' = IF dep.tag = "raise"
                     THEN DependencyFailed("get_available_subjects", <<>>, dep)
                     ELSE HandlerAnswered("get_available_subjects", <<>>, outcome,
                              ep_get_available_subjects(store, outcome))
    /\ UNCHANGED store
    /\ unchanged_deps

GetQuestionsCount ==
    /\ HandlerIdle
    /\ \E subject \in SubjectParams, outcome \in CountOutcomes,
          fallback \in StoreOutcomes, overridden \in BOOLEAN, client_ok \in BOOLEAN :
          LET dep == Depends_get_firestore_service(overridden, client_ok)
          IN  /\ outcome # "AttributeError" => fallback = "ok"
              /\ req' = IF dep.tag = "raise"
                        THEN DependencyFailed("get_questions_count",
                                              [subject |-> subject], dep)
                        ELSE HandlerAnswered("get_questions_count",
                                 [subject |-> subject,
                                  aggregation |-> (outcome # "AttributeError")],
                                 IF outcome = "AttributeError" THEN fallback ELSE outcome,
                                 ep_get_questions_count(store, subject, outcome, fallback))
    /\ UNCHANGED store
    /\ unchanged_deps

GenerateExplanation ==
    /\ HandlerIdle
    /\ \E question_text \in Texts :
          req' = IF ~valid_explanation_request(question_text)
                 THEN Answered("generate_explanation",
                               [question_text |-> question_text], "", validation_error)
                 ELSE AfterBegin("generate_explanation",
                                 [question_text |-> question_text],
                                 generate_explanation_begin(question_text))
    /\ UNCHANGED store
    /\ unchanged_deps

GenerateFeedback ==
    /\ HandlerIdle
    /\ \E questions \in QuestionLists, user_attempt \in UserAttempts :
          LET args == [questions |-> questions, user_attempt |-> user_attempt]
              incorrect_count == feedback_handler_count(questions, user_attempt)
          IN  req' = IF ~valid_feedback_request(questions, user_attempt)
                     THEN Answered("generate_feedback", args, "", validation_error)
                     ELSE [AfterBegin("generate_feedback", args,
                                      ep_feedback_begin(questions, user_attempt))
                             EXCEPT !.logged = IF incorrect_count.tag = "return"
                                               THEN Some(incorrect_count.value)
                                               ELSE None]
    /\ UNCHANGED store
    /\ unchanged_deps

TestConnection ==
    /\ HandlerIdle
    /\ req' = Awaiting("test_connection", <<>>, test_prompt)
    /\ UNCHANGED store
    /\ unchanged_deps

\* Mutant of ProviderAnswers: a failed submission is submitted once more.
ProviderAnswersWithRetry ==
    /\ req.pc = "awaiting"
    /\ \E outcome \in ProviderOutcomes :
          req' = IF outcome.error # "" /\ req.submits < 2
                 THEN [req EXCEPT !.submits = @ + 1]
                 ELSE [req EXCEPT
                         !.pc = "done",
                         !.provider = Some(outcome),
                         !.resp = Some(IF req.endpoint = "test_connection"
                                       THEN ep_test_connection_end(outcome)
                                       ELSE http_response(generate_end(outcome)))]
    /\ UNCHANGED store
    /\ unchanged_deps

\* The awaited generate_content call ends; the handler runs to its response.
ProviderAnswers ==
    /\ req.pc = "awaiting"
    /\ \E outcome \in ProviderOutcomes :
          req' = [req EXCEPT
                    !.pc = "done",
                    !.provider = Some(outcome),
                    !.resp = Some(IF req.endpoint = "test_connection"
                                  THEN ep_test_connection_end(outcome)
                                  ELSE http_response(generate_end(outcome)))]
    /\ UNCHANGED store
    /\ unchanged_deps

\* The response is sent; the next request is taken.
Finish ==
    /\ req.pc = "done"
    /\ req' = IdleReq
    /\ UNCHANGED store
    /\ unchanged_deps

Services == {"firestore", "gemini"}
Threads == 1..MaxThreads
IdleThread ==
    [pc |-> "idle", service |-> "", mine |-> 0, got |-> None, status |-> 0,
     client_ok |-> FALSE]

Init ==
    /\ store \in Stores
    /\ req = IdleReq
    /\ app = [phase |-> "serving", gemini_api_key |-> "key"]
    /\ cache = [s \in Services |-> None]
    /\ built = [s \in Services |-> 0]
    /\ thr = [t \in Threads |-> IdleThread]

Next ==
    \/ GetQuestionById
    \/ GetRandomQuestions
    \/ GetAvailableSubjects
    \/ GetQuestionsCount
    \/ GenerateExplanation
    \/ GenerateFeedback
    \/ TestConnection
    \/ ProviderAnswers
    \/ Finish

Spec == Init /\ [][Next]_vars

(***************************************************************************)
(* SpecDeps: start-up (app/main.py) and the dependency providers           *)
(* (app/api/deps.py).  The providers are synchronous functions, which the  *)
(* framework runs in worker threads; functools.lru_cache looks the key up, *)
(* calls the function outside any lock on a miss, and then stores the      *)
(* result unless the key has been stored meanwhile, returning the call's   *)
(* own result in either case.                                              *)
(***************************************************************************)
\* Mutant of Startup: the key is not validated.
StartupWithoutKeyCheck ==
    /\ app.phase = "starting"
    /\ app' = [app EXCEPT !.phase = "serving"]
    /\ UNCHANGED <<store, req, cache, built, thr>>

\* lifespan: start-up fails when GEMINI_API_KEY is empty
Startup ==
    /\ app.phase = "starting"
    /\ app' = [app EXCEPT !.phase = IF app.gemini_api_key = ""
                                    THEN "failed" ELSE "serving"]
    /\ UNCHANGED <<store, req, cache, built, thr>>

\* A request whose handler depends on `service` is given to worker thread t.
RequestArrives(t) ==
    /\ app.phase = "serving"
    /\ thr[t].pc = "idle"
    /\ \E service \in Services :
          thr' = [thr EXCEPT ![t] = [IdleThread EXCEPT !.pc = "lookup",
                                                       !.service = service]]
    /\ UNCHANGED <<store, req, app, cache, built>>

\* lru_cache wrapper: the cache lookup
CacheLookup(t) ==
    /\ thr[t].pc = "lookup"
    /\ thr' = [thr EXCEPT ![t] =
                 IF cache[thr[t].service] # None
                 THEN [@ EXCEPT !.pc = "resolved", !.got = cache[thr[t].service]]
                 ELSE [@ EXCEPT !.pc = "construct"]]
    /\ UNCHANGED <<store, req, app, cache, built>>

\* lru_cache wrapper, on a miss: the call of the provider's body, which
\* constructs the service; an exception leaves the provider and the request
\* is answered 500.
Construct(t) ==
    /\ thr[t].pc = "construct"
    /\ \E client_ok \in BOOLEAN :
          LET service == thr[t].service
              r == IF service = "firestore"
                   THEN FirestoreService_init(client_ok)
                   ELSE GeminiService_init(app.gemini_api_key)
          IN  IF r.tag = "raise"
              THEN /\ thr' = [thr EXCEPT ![t] = [@ EXCEPT !.pc = "failed",
                                                          !.status = 500,
                                                          !.client_ok = client_ok]]
                   /\ UNCHANGED built
              ELSE /\ thr' = [thr EXCEPT ![t] = [@ EXCEPT !.pc = "store",
                                                          !.mine = built[service] + 1,
                                                          !.client_ok = client_ok]]
                   /\ built' = [built EXCEPT ![service] = @ + 1]
    /\ UNCHANGED <<store, req, app, cache>>

\* lru_cache wrapper, after the call: the result is stored unless the key
\* was stored during the call; the call's own result is returned.
CacheStore(t) ==
    /\ thr[t].pc = "store"
    /\ cache' = IF cache[thr[t].service] = None
                THEN [cache EXCEPT ![thr[t].service] = Some(thr[t].mine)]
                ELSE cache
    /\ thr' = [thr EXCEPT ![t] = [@ EXCEPT !.pc = "resolved",
                                           !.got = Some(thr[t].mine)]]
    /\ UNCHANGED <<store, req, app, built>>

\* The request is answered (by its handler, or with the provider's failure).
Release(t) ==
    /\ thr[t].pc \in {"resolved", "failed"}
    /\ thr' = [thr EXCEPT ![t] = IdleThread]
    /\ UNCHANGED <<store, req, app, cache, built>>

InitDeps ==
    /\ store \in Stores
    /\ req = IdleReq
    /\ app \in [phase : {"starting"}, gemini_api_key : {"", "key"}]
    /\ cache = [s \in Services |-> None]
    /\ built = [s \in Services |-> 0]
    /\ thr = [t \in Threads |-> IdleThread]

NextDeps ==
    \/ Startup
    \/ \E t \in Threads :
          \/ RequestArrives(t)
          \/ CacheLookup(t)
          \/ Construct(t)
          \/ CacheStore(t)
          \/ Release(t)

SpecDeps == InitDeps /\ [][NextDeps]_vars

\* C7 (as claimed): each service is constructed at most once, and all
\* requests holding an instance of a service hold the same one.
C7_SingleInstance ==
    /\ \A s \in Services : built[s] <= 1
    /\ \A t, u \in Threads :
          (/\ thr[t].pc = "resolved" /\ thr[u].pc = "resolved"
           /\ thr[t].service = thr[u].service)
          => thr[t].got = thr[u].got

(***************************************************************************)
(* Claims about the route handlers (checked under Spec).                   *)
(***************************************************************************)
Done(endpoint) == req.pc = "done" /\ req.endpoint = endpoint
Status == req.resp[1].status
Body == req.resp[1].body[1]
IsClientError(status) == status >= 400 /\ status <= 499

\* The request's call of the document store raised.
StoreFailed == req.store_outcome \in {"GoogleCloudError", "Exception"}

\* A returned question is the stored document of its id.
IsDocument(st, q) ==
    /\ q.id \in DOMAIN st
    /\ DOMAIN q = DOMAIN st[q.id] \cup {"id"}
    /\ \A f \in DOMAIN st[q.id] : q[f] = st[q.id][f]

RandomAnswered ==
    /\ Done("get_random_questions")
    /\ valid_count(req.args.count)
    /\ req.store_outcome = "ok"

\* The stored questions whose subject equals s.
WithSubject(st, s) ==
    {i \in DOMAIN st : "subject" \in DOMAIN st[i] /\ st[i].subject = s}

\* The documents matching a subject filter: all of them without a filter,
\* those whose subject equals it with one.
Matching(st, subject) ==
    IF subject = None THEN DOMAIN st ELSE WithSubject(st, subject[1])

\* C1 (as claimed): for every store and every count c in 1..20, a request
\* for c random questions whose store call does not fail is answered with
\* exactly min(c, N) questions, N the number of documents matching the
\* filter; they are pairwise distinct documents of the matching set, and
\* N = 0 gives the empty list, not an error.
C1_SampleSize ==
    (/\ Done("get_random_questions")
     /\ valid_count(req.args.count)
     /\ ~StoreFailed) =>
        /\ Status = 200
        /\ LET qs == Body
               matching == Matching(store, req.args.subject)
           IN  /\ Len(qs) = Min(req.args.count, Cardinality(matching))
               /\ \A a, b \in 1..Len(qs) : a # b => qs[a].id # qs[b].id
               /\ \A a \in 1..Len(qs) :
                     qs[a].id \in matching /\ IsDocument(store, qs[a])

\* C2 (as claimed): GET question by id answers 404 "Pregunta no encontrada"
\* for an id without a document and the document's data for an id with one.
C2_NotFoundIs404 ==
    (Done("get_question_by_id") /\ req.store_outcome = "ok") =>
        IF req.args.question_id \in DOMAIN store
        THEN Status = 200 /\ Body = store[req.args.question_id]
        ELSE Status = 404 /\ req.resp[1].message = "Pregunta no encontrada"

\* C3 (as claimed): a feedback request whose answer list is shorter or longer
\* than its question list, or whose total_questions differs from the number
\* of questions, is answered with a 4xx status.
C3_MismatchIsClientError ==
    (/\ Done("generate_feedback")
     /\ valid_feedback_request(req.args.questions, req.args.user_attempt)
     /\ \/ Len(req.args.user_attempt.answers) # Len(req.args.questions)
        \/ req.args.user_attempt.total_questions # Len(req.args.questions))
    => IsClientError(Status)

\* C4 (as claimed): an explanation request whose question_text is empty or
\* only whitespace is answered with a 4xx status.
C4_BlankTextIsClientError ==
    (Done("generate_explanation") /\ strip(req.args.question_text) = <<>>)
    => IsClientError(Status)

\* The provider raised on the submitted prompt.
ProviderFailed == req.provider # None /\ req.provider[1].error # ""
QuestionEndpoints ==
    {"get_question_by_id", "get_random_questions", "get_available_subjects",
     "get_questions_count"}
GenerateEndpoints == {"generate_explanation", "generate_feedback"}

IsHttpError(resp, status) ==
    resp.status = status /\ resp.message # "" /\ resp.body = None

\* str(e) of the exception the provider call raised.
ProviderErrorText == "provider failure"

\* C5 (as claimed): every request whose external call failed ends in an HTTP
\* error response.
C5_EveryFailureIsHttpError ==
    (req.pc = "done" /\ (StoreFailed \/ ProviderFailed)) => Status >= 400

\* C5 (amended): a failed store call in any of the four question operations
\* gives 500; in generate_explanation and generate_feedback a provider
\* client error gives 400, a server error 502 and any other failure 500,
\* each with a message and no success body; the connection test answers a
\* failed provider call with status 200, the result "error", the error's
\* text as message and no data.
C5_FailureMapping ==
    req.pc = "done" =>
        /\ (req.endpoint \in QuestionEndpoints /\ StoreFailed)
              => IsHttpError(req.resp[1], 500)
        /\ (req.endpoint \in GenerateEndpoints /\ ProviderFailed)
              => IsHttpError(req.resp[1],
                             CASE req.provider[1].error = "ClientError" -> 400
                               [] req.provider[1].error = "ServerError" -> 502
                               [] OTHER -> 500)
        /\ (req.endpoint = "test_connection" /\ ProviderFailed)
              => /\ Status = 200
                 /\ DOMAIN Body = {"status", "message", "data"}
                 /\ Body.status = "error"
                 /\ Body.message = ProviderErrorText
                 /\ Body.data = None

\* C5 witness: a feedback request whose provider call raised a server error
\* was answered 502.
C5_Witness ==
    /\ Done("generate_feedback")
    /\ ProviderFailed
    /\ req.provider[1].error = "ServerError"
    /\ Status = 502

\* C6: no retry: a request submits at most one prompt, and a request whose
\* submission was answered (also by a failure) has ended with that single
\* submission.
C6_NoRetry ==
    /\ req.submits <= 1
    /\ (req.provider # None => req.pc = "done" /\ req.submits = 1)

\* C6 witness: a request ended after its only submission failed.
C6_Witness ==
    /\ req.pc = "done"
    /\ ProviderFailed
    /\ req.submits = 1

\* C8: the question bank is read-only: no step of any handler, successful
\* or failed, changes the stored documents.
C8_StoreReadOnly == [][store' = store]_vars

\* C8 witness: a random-questions request returned stored documents.
C8_Witness ==
    /\ RandomAnswered
    /\ Status = 200
    /\ Len(Body) >= 1

\* C9 (as claimed): whenever a subject is given, every returned question has
\* that subject.
C9_GivenSubjectFilters ==
    (RandomAnswered /\ req.args.subject # None) =>
        \A a \in 1..Len(Body) :
            "subject" \in DOMAIN Body[a] /\ Body[a].subject = req.args.subject[1]

\* C9 (amended): with a non-empty subject every returned question has that
\* subject and the sample is drawn from exactly the questions with it; with
\* no subject, or the empty string, the sample is drawn from all questions.
C9_SubjectFilter ==
    RandomAnswered =>
        LET qs == Body
            subject == req.args.subject
            pool == IF subject # None /\ subject[1] # ""
                    THEN {i \in DOMAIN store :
                            "subject" \in DOMAIN store[i]
                            /\ store[i].subject = subject[1]}
                    ELSE DOMAIN store
        IN  /\ {qs[a].id : a \in 1..Len(qs)} \subseteq pool
            /\ Len(qs) = Min(req.args.count, Cardinality(pool))
            /\ (subject # None /\ subject[1] # "") =>
                  \A a \in 1..Len(qs) :
                      "subject" \in DOMAIN qs[a] /\ qs[a].subject = subject[1]

\* C9 witness: a filter "a" over a store that also holds another subject
\* returned a question.
C9_Witness ==
    /\ RandomAnswered
    /\ req.args.subject = Some("a")
    /\ \E i \in DOMAIN store : "subject" \in DOMAIN store[i] /\ store[i].subject = "b"
    /\ Len(Body) = 1

\* The positions of a feedback request answered incorrectly, ascending.
WrongPositions(questions, answers) ==
    SortedSeq({i \in 1..Len(questions) : answers[i] # questions[i].correct_answer})

\* C10: for a valid feedback request the congratulations prompt is submitted
\* iff every answer equals the correct index at its position; otherwise the
\* review prompt is submitted, listing exactly the incorrectly answered
\* questions in their original order, numbered 1..k.
C10_PromptChoice ==
    (req.endpoint = "generate_feedback" /\ req.prompt # None) =>
        LET questions == req.args.questions
            wrong == WrongPositions(questions, req.args.user_attempt.answers)
            prompt == req.prompt[1]
        IN  /\ (prompt.kind = "congratulations") <=> (wrong = <<>>)
            /\ wrong # <<>> =>
                 /\ prompt.kind = "feedback"
                 /\ Len(prompt.lines) = Len(wrong)
                 /\ \A j \in 1..Len(wrong) :
                       /\ prompt.lines[j].n = j
                       /\ prompt.lines[j].question = questions[wrong[j]].question

\* C10 witness: of two questions the first was answered correctly and the
\* second was not; the review prompt lists the second as number 1.
C10_Witness ==
    /\ req.endpoint = "generate_feedback"
    /\ req.prompt # None
    /\ Len(req.args.questions) = 2
    /\ req.args.user_attempt.answers[1] = req.args.questions[1].correct_answer
    /\ req.args.user_attempt.answers[2] # req.args.questions[2].correct_answer
    /\ req.prompt[1].kind = "feedback"
    /\ req.prompt[1].lines = <<[n |-> 1, question |-> "Q2"]>>


\* C11: the generative-text API is never called for a feedback request whose
\* answer list and question list differ in length: no prompt is submitted
\* at any point of such a request.
C11_NoSubmitOnLengthMismatch ==
    (/\ req.endpoint = "generate_feedback"
     /\ Len(req.args.user_attempt.answers) # Len(req.args.questions))
    => req.submits = 0 /\ req.prompt = None /\ req.provider = None

\* C11 witness: a request with more answers than questions (and a matching
\* total_questions) ended without a submission.
C11_Witness ==
    /\ Done("generate_feedback")
    /\ Len(req.args.questions) >= 1
    /\ Len(req.args.user_attempt.answers) > Len(req.args.questions)
    /\ req.args.user_attempt.total_questions = Len(req.args.questions)
    /\ Status = 500
    /\ req.submits = 0


\* The text of the first content part of the first candidate of the answer the
\* provider gave to this request, if the answer has one.
FirstPartText ==
    LET response == req.provider[1].response
    IN  IF response = None THEN None
        ELSE IF response[1].candidates = <<>> THEN None
        ELSE IF response[1].candidates[1].content = None THEN None
        ELSE IF response[1].candidates[1].content[1].parts = <<>> THEN None
        ELSE response[1].candidates[1].content[1].parts[1].text

IsBlank(text) == \A i \in 1..Len(text) : text[i] = " "

ProviderAnswered(endpoint) ==
    Done(endpoint) /\ req.provider # None /\ req.provider[1].error = ""

\* C12: a successful explanation or feedback response carries exactly the text
\* of the first content part of the first candidate, and that text is not
\* blank; when the answer is missing, has no candidates, no content, no parts,
\* or an empty or blank text, the request ends in an error without a body.
C12_FirstPartTextOrError ==
    (req.pc = "done" /\ req.endpoint \in GenerateEndpoints) =>
        /\ Status = 200 =>
              /\ req.provider # None /\ req.provider[1].error = ""
              /\ FirstPartText # None
              /\ Body = FirstPartText[1]
              /\ ~IsBlank(Body)
        /\ (ProviderAnswered(req.endpoint)
            /\ (FirstPartText = None \/ IsBlank(FirstPartText[1]))) =>
              Status >= 400 /\ req.resp[1].body = None
        /\ (ProviderAnswered(req.endpoint)
            /\ FirstPartText # None /\ ~IsBlank(FirstPartText[1])) =>
              Status = 200

\* C12 witness: an answer of two parts, the second one blank, gave a success
\* body equal to the first part's text.
C12_Witness ==
    /\ ProviderAnswered("generate_feedback")
    /\ FirstPartText # None
    /\ LET parts == req.provider[1].response[1].candidates[1].content[1].parts
       IN  /\ Len(parts) = 2
           /\ parts[2].text # None
           /\ IsBlank(parts[2].text[1])
           /\ Body = parts[1].text[1]
    /\ Status = 200


\* C13 (as claimed): a count request whose store call does not fail is
\* answered with the number of stored documents matching the optional
\* subject filter, on the aggregation path and on the manual-count path
\* alike.
C13_CountMatchesOnBothPaths ==
    (Done("get_questions_count") /\ ~StoreFailed) =>
        /\ Status = 200
        /\ Body.total_questions = Cardinality(Matching(store, req.args.subject))

\* The non-empty subject values occurring in at least one stored question.
StoredSubjects(st) ==
    {s \in Subjects \ {""} :
        \E i \in DOMAIN st : "subject" \in DOMAIN st[i] /\ st[i].subject = s}

\* C14 (as claimed): a request for the available subjects whose store call
\* does not fail is answered with a list in ascending order, without
\* duplicates, containing exactly the non-empty subject values of the stored
\* questions; documents with a missing or empty subject contribute nothing.
C14_SubjectsSortedDistinctExact ==
    (Done("get_available_subjects") /\ ~StoreFailed) =>
        /\ Status = 200
        /\ LET subjects == Body.subjects
           IN  /\ \A i, j \in 1..Len(subjects) :
                     i < j => StrRank(subjects[i]) < StrRank(subjects[j])
               /\ {subjects[i] : i \in 1..Len(subjects)} = StoredSubjects(store)

\* C15: the application never serves a request while the generative-API key
\* is empty: start-up fails, so no request is ever given to a worker and no
\* service is constructed.
C15_NoServingWithEmptyKey ==
    app.gemini_api_key = "" =>
        /\ app.phase # "serving"
        /\ \A t \in Threads : thr[t].pc = "idle"
        /\ \A s \in Services : built[s] = 0 /\ cache[s] = None

\* C15 witness: start-up has run with an empty key and has failed.
C15_Witness == app.gemini_api_key = "" /\ app.phase = "failed"


\* C16 (as claimed): the connection test never ends in an HTTP error: for
\* every outcome of the provider call the response is a 200 whose status is
\* "success" or "error", and it includes data exactly when the status is
\* "success".
C16_ConnectionTestNeverFails ==
    Done("test_connection") =>
        /\ Status = 200
        /\ Body.status \in {"success", "error"}
        /\ (Body.data # None) <=> (Body.status = "success")


\* C17 (as claimed): constructing FirestoreService succeeds whenever the
\* document-store client can be created, so a request to a question endpoint
\* fails in the provider only when the client could not be created.
C17_ConstructionSucceedsWithClient ==
    \A t \in Threads :
        (thr[t].service = "firestore" /\ thr[t].pc = "failed") => ~thr[t].client_ok


\* C18 (as claimed): in the response of the count endpoint, "filtered" is
\* true if and only if total_questions was computed over only the questions
\* whose subject equals the reported subject, for every subject a client can
\* send, the empty string included.
C18_FilteredIffCountedBySubject ==
    (Done("get_questions_count") /\ Status = 200) =>
        IF Body.filtered
        THEN /\ Body.subject # None
             /\ Body.total_questions = Cardinality(WithSubject(store, Body.subject[1]))
        ELSE /\ Body.subject = None
             /\ Body.total_questions = Cardinality(DOMAIN store)


\* A feedback request that passed the declared validation.
FeedbackAccepted ==
    /\ req.endpoint = "generate_feedback"
    /\ req.pc = "awaiting" \/ (req.pc = "done" /\ Status # 422)

\* C19 (as claimed): every Question accepted in a feedback request has a
\* correct_answer that is the index of one of its options.
C19_CorrectAnswerIsOptionIndex ==
    FeedbackAccepted =>
        \A k \in 1..Len(req.args.questions) :
            /\ 0 <= req.args.questions[k].correct_answer
            /\ req.args.questions[k].correct_answer < Len(req.args.questions[k].options)


\* C20: the prompt submitted for a feedback request is determined by the
\* questions and the answer list only: the same request with any other score
\* submits the same prompt, and the incorrect count the handler logs equals
\* the number of questions listed in the prompt.
C20_PromptIndependentOfScore ==
    (req.endpoint = "generate_feedback" /\ req.prompt # None) =>
        /\ \A score \in Scores :
              LET other == [req.args.user_attempt EXCEPT !.score = score]
              IN  /\ valid_feedback_request(req.args.questions, other)
                  /\ ep_feedback_begin(req.args.questions, other)
                        = Submit(req.prompt[1])
        /\ req.logged = Some(Len(req.prompt[1].lines))

\* C20 witness: a request claiming a full score with a wrong answer submitted
\* the review prompt of one question, and the handler logged one.
C20_Witness ==
    /\ req.endpoint = "generate_feedback"
    /\ req.prompt # None
    /\ Len(req.args.questions) = 1
    /\ req.args.user_attempt.score = 1
    /\ req.args.user_attempt.answers[1] # req.args.questions[1].correct_answer
    /\ req.prompt[1].kind = "feedback"
    /\ Len(req.prompt[1].lines) = 1
    /\ req.logged = Some(1)

====
